---- MODULE Spec2Model ----
(***************************************************************************)
(* Model of boolean_query_parser/parser.py: the Lexer (tokenize and its    *)
(* two extractors), the recursive-descent Parser, the five AST node kinds  *)
(* with their tree-walk (evaluate) and closure (_compile) evaluations, and *)
(* the facade parse_query / apply_query.                                   *)
(*                                                                         *)
(* A Python str is a sequence of one-character strings; offsets are        *)
(* 0-based as in the source, so the character at offset p of q is q[p+1].  *)
(***************************************************************************)
EXTENDS Integers, Sequences, FiniteSets, TLC

VARIABLES
    query,      \* Lexer.query: the query string given to parse_query
    position,   \* Lexer.position
    tokens,     \* Lexer.tokens, then Parser.tokens
    pc,         \* where the call sequence stands (see TypeOK)
    current,    \* Parser.current
    ast,        \* the node parse_query returned (NoNode before and on error)
    error,      \* the exception that left parse_query / apply_query
    text_data,  \* apply_query's second argument
    result      \* apply_query's return value

vars == <<query, position, tokens, pc, current, ast, error, text_data, result>>

------------------------------------------------------------------------------
(* Bounds of the model *)

MaxPieces == 3
MaxWords == 5
MaxList == 3
MaxFlags == 2
MaxNest == 3
MaxQuoted == 4
MaxThreads == 2
MaxCalls == 3

------------------------------------------------------------------------------
(* Characters *)

LowerCase ==
    <<"a","b","c","d","e","f","g","h","i","j","k","l","m",
      "n","o","p","q","r","s","t","u","v","w","x","y","z">>

UpperCase ==
    <<"A","B","C","D","E","F","G","H","I","J","K","L","M",
      "N","O","P","Q","R","S","T","U","V","W","X","Y","Z">>

Range(s) == {s[i] : i \in DOMAIN s}

Letters == Range(LowerCase) \cup Range(UpperCase)

Digits == {"0","1","2","3","4","5","6","7","8","9"}

IsAlpha(c) == c \in Letters

IsAlnum(c) == c \in Letters \cup Digits

(* IsSpace taking every character that starts no token as white space *)
IsSpaceOrOther(c) ==
    ~(c \in Letters \cup Digits \cup {"_", "\"", "'", "(", ")", "/"})

IsSpace(c) == c = " " \/ c = "\t" \/ c = "\n" \/ c = "\r"

IsTextStart(c) == IsAlnum(c) \/ c \in {"_", "\"", "'"}

UpperChar(c) ==
    IF c \in Range(LowerCase)
    THEN UpperCase[CHOOSE i \in DOMAIN LowerCase : LowerCase[i] = c]
    ELSE c

Upper(s) == [i \in DOMAIN s |-> UpperChar(s[i])]

At(q, p) == q[p + 1]

Slice(q, from, to) == SubSeq(q, from + 1, to)

AND_KW == <<"A","N","D">>
OR_KW == <<"O","R">>
NOT_KW == <<"N","O","T">>

Token(type, value, pos) == [type |-> type, value |-> value, position |-> pos]

------------------------------------------------------------------------------
(* Lexer._extract_regex *)

RECURSIVE RegexBody(_, _, _)
RegexBody(q, pos, parts) ==
    IF pos < Len(q) /\ At(q, pos) # "/"
    THEN IF At(q, pos) = "\\" /\ pos + 1 < Len(q)
         THEN RegexBody(q, pos + 2, parts \o Slice(q, pos, pos + 2))
         ELSE RegexBody(q, pos + 1, Append(parts, At(q, pos)))
    ELSE [pos |-> pos, parts |-> parts]

RECURSIVE RegexFlags(_, _, _)
RegexFlags(q, pos, flags_parts) ==
    IF pos < Len(q) /\ IsAlpha(At(q, pos))
    THEN RegexFlags(q, pos + 1, Append(flags_parts, At(q, pos)))
    ELSE [pos |-> pos, flags_parts |-> flags_parts]

ExtractRegex(q, start_pos) ==
    IF start_pos + 1 >= Len(q)
    THEN [value |-> <<>>, position |-> start_pos]
    ELSE LET body == RegexBody(q, start_pos + 1, <<>>) IN
         IF body.pos < Len(q) /\ At(q, body.pos) = "/"
         THEN LET fl == RegexFlags(q, body.pos + 1, <<>>) IN
              [value |-> IF fl.flags_parts # <<>>
                         THEN body.parts \o <<"/">> \o fl.flags_parts
                         ELSE body.parts,
               position |-> fl.pos]
         ELSE [value |-> <<>>, position |-> start_pos]

------------------------------------------------------------------------------
(* Lexer._extract_text *)

RECURSIVE QuotedBody(_, _, _, _)
QuotedBody(q, pos, quote_char, parts) ==
    IF pos < Len(q) /\ At(q, pos) # quote_char
    THEN IF At(q, pos) = "\\" /\ pos + 1 < Len(q)
         THEN QuotedBody(q, pos + 2, quote_char, Append(parts, At(q, pos + 1)))
         ELSE QuotedBody(q, pos + 1, quote_char, Append(parts, At(q, pos)))
    ELSE [pos |-> pos, parts |-> parts]

RECURSIVE WordEnd(_, _)
WordEnd(q, pos) ==
    IF pos < Len(q) /\ (IsAlnum(At(q, pos)) \/ At(q, pos) = "_")
    THEN WordEnd(q, pos + 1)
    ELSE pos

ExtractText(q, pos) ==
    IF At(q, pos) \in {"\"", "'"}
    THEN LET body == QuotedBody(q, pos + 1, At(q, pos), <<>>) IN
         [text |-> body.parts,
          position |-> IF body.pos < Len(q) THEN body.pos + 1 ELSE body.pos]
    ELSE LET end == WordEnd(q, pos) IN
         [text |-> Slice(q, pos, end), position |-> end]

(* TextToken comparing the text with the keywords without upper() *)
TextTokenCaseSensitive(text, pos) ==
    IF text = AND_KW THEN Token("AND", AND_KW, pos - 3)
    ELSE IF text = OR_KW THEN Token("OR", OR_KW, pos - 2)
    ELSE IF text = NOT_KW THEN Token("NOT", NOT_KW, pos - 3)
    ELSE Token("TEXT", text, pos - Len(text))

(* The token tokenize appends for the text _extract_text returned. *)
TextToken(text, pos) ==
    IF Upper(text) = AND_KW THEN Token("AND", AND_KW, pos - 3)
    ELSE IF Upper(text) = OR_KW THEN Token("OR", OR_KW, pos - 2)
    ELSE IF Upper(text) = NOT_KW THEN Token("NOT", NOT_KW, pos - 3)
    ELSE Token("TEXT", text, pos - Len(text))

------------------------------------------------------------------------------
(* The regular-expression engine (Python's re), for the patterns the lexer *)
(* can hand it over the characters of the model: a letter, a digit, '_',   *)
(* a blank, a quote or '@' matches itself; a backslash makes the following *)
(* non-alphanumeric character literal and is an error as the last          *)
(* character; '(' and ')' group and must balance; '{' digits '}' after a   *)
(* literal character repeats it that many times, is an error where there   *)
(* is nothing to repeat, and raises OverflowError for a count of MAXREPEAT *)
(* or more; any other '{' or '}' matches itself; under VERBOSE unescaped   *)
(* white space is dropped; under IGNORECASE letters match in either case.  *)

(* _sre.MAXREPEAT, 4294967295, as its decimal digits *)
MAXREPEAT == <<"4","2","9","4","9","6","7","2","9","5">>

DigitOrder == <<"0","1","2","3","4","5","6","7","8","9">>

DigitValue(c) == (CHOOSE n \in DOMAIN DigitOrder : DigitOrder[n] = c) - 1

(* the run of digits of p from index i on *)
RECURSIVE DigitsFrom(_, _)
DigitsFrom(p, i) ==
    IF i <= Len(p) /\ p[i] \in Digits
    THEN <<p[i]>> \o DigitsFrom(p, i + 1)
    ELSE <<>>

RECURSIVE StripZeros(_)
StripZeros(d) == IF d # <<>> /\ d[1] = "0" THEN StripZeros(Tail(d)) ELSE d

(* d >= e for two digit strings of the same length *)
RECURSIVE DigitsGE(_, _)
DigitsGE(d, e) ==
    IF d = <<>>
    THEN TRUE
    ELSE IF d[1] = e[1]
    THEN DigitsGE(Tail(d), Tail(e))
    ELSE DigitValue(d[1]) > DigitValue(e[1])

(* int(d) >= MAXREPEAT *)
TooLarge(d) ==
    LET n == StripZeros(d) IN
    \/ Len(n) > Len(MAXREPEAT)
    \/ Len(n) = Len(MAXREPEAT) /\ DigitsGE(n, MAXREPEAT)

(* int(d), for a count below MAXREPEAT that the lists of the model can hold *)
RECURSIVE IntOf(_)
IntOf(d) ==
    IF d = <<>> THEN 0 ELSE 10 * IntOf(SubSeq(d, 1, Len(d) - 1)) + DigitValue(d[Len(d)])

(* lits with its last literal repeated n times in place of once *)
Repeated(lits, n) ==
    SubSeq(lits, 1, Len(lits) - 1) \o [k \in 1 .. n |-> lits[Len(lits)]]

(* p[i] = '{' opens a repetition count *)
IsRepeat(p, i) ==
    LET d == DigitsFrom(p, i + 1) IN
    d # <<>> /\ i + Len(d) + 1 <= Len(p) /\ p[i + Len(d) + 1] = "}"

(* the item before p[i] is a literal character *)
AfterLiteral(p, i, verbose, lits) ==
    /\ lits # <<>>
    /\ i > 1
    /\ p[i - 1] \notin {"(", ")", "}"}
    /\ ~(verbose /\ IsSpace(p[i - 1]))

ReFailed(exc, lits) == [ok |-> FALSE, exc |-> exc, lits |-> lits]

RECURSIVE ReScan(_, _, _, _, _)
ReScan(p, i, depth, verbose, lits) ==
    IF i > Len(p)
    THEN IF depth = 0
         THEN [ok |-> TRUE, exc |-> "none", lits |-> lits]
         ELSE ReFailed("re.error", lits)
    ELSE IF p[i] = "\\"
         THEN IF i = Len(p)
              THEN ReFailed("re.error", lits)
              ELSE ReScan(p, i + 2, depth, verbose, Append(lits, p[i + 1]))
         ELSE IF p[i] = "("
              THEN ReScan(p, i + 1, depth + 1, verbose, lits)
         ELSE IF p[i] = ")"
              THEN IF depth = 0
                   THEN ReFailed("re.error", lits)
                   ELSE ReScan(p, i + 1, depth - 1, verbose, lits)
         ELSE IF p[i] = "{" /\ IsRepeat(p, i)
              THEN IF TooLarge(DigitsFrom(p, i + 1))
                   THEN ReFailed("OverflowError", lits)
                   ELSE IF ~AfterLiteral(p, i, verbose, lits)
                   THEN ReFailed("re.error", lits)
                   ELSE ReScan(p, i + Len(DigitsFrom(p, i + 1)) + 2, depth, verbose,
                               Repeated(lits, IntOf(DigitsFrom(p, i + 1))))
         ELSE IF verbose /\ IsSpace(p[i])
              THEN ReScan(p, i + 1, depth, verbose, lits)
         ELSE ReScan(p, i + 1, depth, verbose, Append(lits, p[i]))

(* re.compile(pattern, flags): ok is FALSE where it raises, exc names the  *)
(* exception (re.error or OverflowError).                                  *)
ReCompile(pattern, flags) ==
    LET scan == ReScan(pattern, 1, 0, "VERBOSE" \in flags, <<>>) IN
    [ok |-> scan.ok, exc |-> scan.exc,
     pattern |-> pattern, flags |-> flags, lits |-> scan.lits]

(* Contains folding the letter case of both strings *)
ContainsFolded(value, text) ==
    \E i \in 0 .. (Len(text) - Len(value)) :
        Upper(SubSeq(text, i + 1, i + Len(value))) = Upper(value)

(* value in text *)
Contains(value, text) ==
    \E i \in 0 .. (Len(text) - Len(value)) :
        SubSeq(text, i + 1, i + Len(value)) = value

(* compiled.search(text) is not None *)
ReSearch(regex, text) ==
    IF "IGNORECASE" \in regex.flags
    THEN Contains(Upper(regex.lits), Upper(text))
    ELSE Contains(regex.lits, text)

------------------------------------------------------------------------------
(* AST nodes *)

NoNode == [kind |-> "None"]

TextNode(value) == [kind |-> "Text", value |-> value]

NotNode(child) == [kind |-> "Not", child |-> child]

AndNode(left, right) == [kind |-> "And", left |-> left, right |-> right]

OrNode(left, right) == [kind |-> "Or", left |-> left, right |-> right]

VALID_FLAGS == {"i", "m", "s", "x"}

(* str.rfind('/'): the 0-based offset of the last '/', -1 when there is none *)
RFindSlash(s) ==
    IF \E i \in DOMAIN s : s[i] = "/"
    THEN (CHOOSE i \in DOMAIN s : s[i] = "/" /\ \A j \in DOMAIN s : j > i => s[j] # "/") - 1
    ELSE -1

(* FlagOptions looking at the first flag character only *)
FlagOptionsFirstOnly(flag_str) ==
    {o \in {"IGNORECASE", "MULTILINE", "DOTALL", "VERBOSE"} :
        \/ o = "IGNORECASE" /\ flag_str[1] = "i"
        \/ o = "MULTILINE" /\ flag_str[1] = "m"
        \/ o = "DOTALL" /\ flag_str[1] = "s"
        \/ o = "VERBOSE" /\ flag_str[1] = "x"}

FlagOptions(flag_str) ==
    {o \in {"IGNORECASE", "MULTILINE", "DOTALL", "VERBOSE"} :
        \/ o = "IGNORECASE" /\ "i" \in Range(flag_str)
        \/ o = "MULTILINE" /\ "m" \in Range(flag_str)
        \/ o = "DOTALL" /\ "s" \in Range(flag_str)
        \/ o = "VERBOSE" /\ "x" \in Range(flag_str)}

(* RegexNode.__init__: ok is FALSE where it raises; exc is ValueError for  *)
(* re.error, which the except clause converts, and the exception of        *)
(* re.compile itself for any other                                         *)
RegexNode(pattern) ==
    LET last_slash == RFindSlash(pattern)
        possible_flags == Slice(pattern, last_slash + 1, Len(pattern))
        split == /\ last_slash > 0
                 /\ possible_flags # <<>>
                 /\ \A i \in DOMAIN possible_flags : possible_flags[i] \in VALID_FLAGS
        regex == IF split
                 THEN ReCompile(Slice(pattern, 0, last_slash), FlagOptions(possible_flags))
                 ELSE ReCompile(pattern, {})
    IN [ok |-> regex.ok,
        exc |-> IF regex.exc = "re.error" THEN "ValueError" ELSE regex.exc,
        node |-> [kind |-> "Regex", pattern |-> pattern, regex |-> regex]]

------------------------------------------------------------------------------
(* Node.evaluate: the tree walk *)

RECURSIVE Evaluate(_, _)
Evaluate(node, text) ==
    CASE node.kind = "Text" -> Contains(node.value, text)
      [] node.kind = "Regex" -> ReSearch(node.regex, text)
      [] node.kind = "Not" -> ~Evaluate(node.child, text)
      [] node.kind = "And" -> IF Evaluate(node.left, text)
                              THEN Evaluate(node.right, text)
                              ELSE FALSE
      [] node.kind = "Or" -> IF Evaluate(node.left, text)
                             THEN TRUE
                             ELSE Evaluate(node.right, text)

(* Node._compile: the closure each node kind returns, as the record of the *)
(* values the closure captures.                                            *)
RECURSIVE Compile(_)
Compile(node) ==
    CASE node.kind = "Text" -> [fn |-> "text_eval", value |-> node.value]
      [] node.kind = "Regex" -> [fn |-> "regex_eval", search |-> node.regex]
      [] node.kind = "Not" -> [fn |-> "not_eval", child_eval |-> Compile(node.child)]
      [] node.kind = "And" -> [fn |-> "and_eval",
                               left_eval |-> Compile(node.left),
                               right_eval |-> Compile(node.right)]
      [] node.kind = "Or" -> [fn |-> "or_eval",
                              left_eval |-> Compile(node.left),
                              right_eval |-> Compile(node.right)]

RECURSIVE Call(_, _)

(* Call with the negation of NotNode's closure dropped *)
CallNotDropped(closure, text) ==
    CASE closure.fn = "text_eval" -> Contains(closure.value, text)
      [] closure.fn = "regex_eval" -> ReSearch(closure.search, text)
      [] closure.fn = "not_eval" -> Call(closure.child_eval, text)
      [] closure.fn = "and_eval" -> IF Call(closure.left_eval, text)
                                    THEN Call(closure.right_eval, text)
                                    ELSE FALSE
      [] closure.fn = "or_eval" -> IF Call(closure.left_eval, text)
                                   THEN TRUE
                                   ELSE Call(closure.right_eval, text)

(* A call of a closure _compile returned: the _eval bodies. *)
Call(closure, text) ==
    CASE closure.fn = "text_eval" -> Contains(closure.value, text)
      [] closure.fn = "regex_eval" -> ReSearch(closure.search, text)
      [] closure.fn = "not_eval" -> ~Call(closure.child_eval, text)
      [] closure.fn = "and_eval" -> IF Call(closure.left_eval, text)
                                    THEN Call(closure.right_eval, text)
                                    ELSE FALSE
      [] closure.fn = "or_eval" -> IF Call(closure.left_eval, text)
                                   THEN TRUE
                                   ELSE Call(closure.right_eval, text)

------------------------------------------------------------------------------
(* The order of evaluation: evaluate and the _eval closures once more,     *)
(* returning with the boolean the leaves whose evaluate / _eval ran, in    *)
(* the order they ran, each named by its path from the root.               *)

Visit(path, value) == [value |-> value, visited |-> <<path>>]

NotVisit(child) == [value |-> ~child.value, visited |-> child.visited]

(* AndVisit evaluating the right operand whatever the left one gave *)
AndVisitEager(left, right) ==
    [value |-> left.value /\ right.value, visited |-> left.visited \o right.visited]

(* left and right: Python's and evaluates right only if left is true *)
AndVisit(left, right) ==
    IF left.value
    THEN [value |-> right.value, visited |-> left.visited \o right.visited]
    ELSE [value |-> FALSE, visited |-> left.visited]

(* left or right: Python's or evaluates right only if left is false *)
OrVisit(left, right) ==
    IF left.value
    THEN [value |-> TRUE, visited |-> left.visited]
    ELSE [value |-> right.value, visited |-> left.visited \o right.visited]

RECURSIVE EvaluateVisit(_, _, _)
EvaluateVisit(node, text, path) ==
    CASE node.kind = "Text" -> Visit(path, Contains(node.value, text))
      [] node.kind = "Regex" -> Visit(path, ReSearch(node.regex, text))
      [] node.kind = "Not" ->
             NotVisit(EvaluateVisit(node.child, text, Append(path, "child")))
      [] node.kind = "And" ->
             AndVisit(EvaluateVisit(node.left, text, Append(path, "left")),
                      EvaluateVisit(node.right, text, Append(path, "right")))
      [] node.kind = "Or" ->
             OrVisit(EvaluateVisit(node.left, text, Append(path, "left")),
                     EvaluateVisit(node.right, text, Append(path, "right")))

RECURSIVE CallVisit(_, _, _)
CallVisit(closure, text, path) ==
    CASE closure.fn = "text_eval" -> Visit(path, Contains(closure.value, text))
      [] closure.fn = "regex_eval" -> Visit(path, ReSearch(closure.search, text))
      [] closure.fn = "not_eval" ->
             NotVisit(CallVisit(closure.child_eval, text, Append(path, "child")))
      [] closure.fn = "and_eval" ->
             AndVisit(CallVisit(closure.left_eval, text, Append(path, "left")),
                      CallVisit(closure.right_eval, text, Append(path, "right")))
      [] closure.fn = "or_eval" ->
             OrVisit(CallVisit(closure.left_eval, text, Append(path, "left")),
                     CallVisit(closure.right_eval, text, Append(path, "right")))

------------------------------------------------------------------------------
(* One evaluation as the steps a thread takes: each step runs the evaluate *)
(* (or _eval) of one leaf, reading the tree as it is at that moment, and   *)
(* the and / or / not above the leaf then return or go on to the next leaf.*)

(* the node at a path of a tree *)
RECURSIVE Sub(_, _)
Sub(node, path) ==
    IF path = <<>>
    THEN node
    ELSE Sub(IF path[1] = "child" THEN node.child
             ELSE IF path[1] = "left" THEN node.left
             ELSE node.right,
             Tail(path))

(* the first leaf an evaluation of node reaches *)
RECURSIVE FirstLeaf(_, _)
FirstLeaf(node, path) ==
    CASE node.kind \in {"Text", "Regex"} -> path
      [] node.kind = "Not" -> FirstLeaf(node.child, Append(path, "child"))
      [] node.kind \in {"And", "Or"} -> FirstLeaf(node.left, Append(path, "left"))

(* the body of a leaf's evaluate / _eval *)
LeafValue(leaf, text) ==
    IF leaf.kind = "Text" THEN Contains(leaf.value, text) ELSE ReSearch(leaf.regex, text)

Running(path) == [done |-> FALSE, at |-> path, value |-> FALSE]

Finished(value) == [done |-> TRUE, at |-> <<>>, value |-> value]

(* the node at path of root has returned value: what its callers do *)
RECURSIVE Resume(_, _, _)
Resume(root, path, value) ==
    IF path = <<>>
    THEN Finished(value)
    ELSE IF Sub(root, SubSeq(path, 1, Len(path) - 1)).kind = "Not"
    THEN Resume(root, SubSeq(path, 1, Len(path) - 1), ~value)
    ELSE IF /\ path[Len(path)] = "left"
            /\ value = (Sub(root, SubSeq(path, 1, Len(path) - 1)).kind = "And")
    THEN Running(FirstLeaf(Sub(root, SubSeq(path, 1, Len(path) - 1)).right,
                           Append(SubSeq(path, 1, Len(path) - 1), "right")))
    ELSE Resume(root, SubSeq(path, 1, Len(path) - 1), value)

(* the values a closure of _compile captured, in the shape of the tree *)
RECURSIVE Captured(_)
Captured(closure) ==
    CASE closure.fn = "text_eval" -> [kind |-> "Text", value |-> closure.value]
      [] closure.fn = "regex_eval" -> [kind |-> "Regex", regex |-> closure.search]
      [] closure.fn = "not_eval" -> [kind |-> "Not", child |-> Captured(closure.child_eval)]
      [] closure.fn = "and_eval" -> [kind |-> "And",
                                     left |-> Captured(closure.left_eval),
                                     right |-> Captured(closure.right_eval)]
      [] closure.fn = "or_eval" -> [kind |-> "Or",
                                    left |-> Captured(closure.left_eval),
                                    right |-> Captured(closure.right_eval)]

(* tree with the node at path replaced by new *)
RECURSIVE Replaced(_, _, _)
Replaced(tree, path, new) ==
    IF path = <<>>
    THEN new
    ELSE IF path[1] = "child"
    THEN [tree EXCEPT !.child = Replaced(tree.child, Tail(path), new)]
    ELSE IF path[1] = "left"
    THEN [tree EXCEPT !.left = Replaced(tree.left, Tail(path), new)]
    ELSE [tree EXCEPT !.right = Replaced(tree.right, Tail(path), new)]

(* TreeAfter for a Text leaf that keeps the text it was last given *)
TreeAfterKeepsText(tree, path, text) ==
    IF Sub(tree, path).kind = "Text"
    THEN Replaced(tree, path, TextNode(text))
    ELSE tree

(* the tree after the leaf at path has been evaluated on text: evaluate    *)
(* and _eval assign no field of any node                                   *)
TreeAfter(tree, path, text) == tree

------------------------------------------------------------------------------
(* Parser: each method takes the token list and the cursor it starts at    *)
(* and returns the node with the cursor it leaves, or ok = FALSE with the  *)
(* message of the ValueError it raises.                                    *)

RECURSIVE ParseOrExpr(_, _)
RECURSIVE OrLoop(_, _, _)
RECURSIVE ParseAndExpr(_, _)
RECURSIVE AndLoop(_, _, _)
RECURSIVE ParseNotExpr(_, _)
RECURSIVE ParseAtom(_, _)

Parsed(node, cur) ==
    [ok |-> TRUE, exc |-> "none", node |-> node, current |-> cur, msg |-> <<>>]

(* an exception exc other than ValueError leaves the parser *)
Propagated(cur, exc, msg) ==
    [ok |-> FALSE, exc |-> exc, node |-> NoNode, current |-> cur, msg |-> msg]

Raised(cur, msg) == Propagated(cur, "ValueError", msg)

IMPLICIT_AND_STARTERS == {"TEXT", "REGEX", "LPAREN", "NOT"}

TypeAt(toks, cur) == toks[cur + 1].type

(* OrFold keeping only the right operand *)
OrFoldRightOnly(toks, left, right) ==
    IF right.ok
    THEN OrLoop(toks, right.node, right.current)
    ELSE right

(* _parse_or_expr: left = self._parse_and_expr(), then its while loop;   *)
(* OrFold is the loop body after right = self._parse_and_expr().           *)
OrFold(toks, left, right) ==
    IF right.ok
    THEN OrLoop(toks, OrNode(left, right.node), right.current)
    ELSE right

OrLoop(toks, left, cur) ==
    IF cur < Len(toks) /\ TypeAt(toks, cur) = "OR"
    THEN OrFold(toks, left, ParseAndExpr(toks, cur + 1))
    ELSE Parsed(left, cur)

OrStart(toks, left) ==
    IF left.ok THEN OrLoop(toks, left.node, left.current) ELSE left

ParseOrExpr(toks, cur) == OrStart(toks, ParseAndExpr(toks, cur))

(* AndFold with the operands of AndNode exchanged *)
AndFoldSwapped(toks, left, right) ==
    IF right.ok
    THEN AndLoop(toks, AndNode(right.node, left), right.current)
    ELSE right

(* _parse_and_expr: left = self._parse_not_expr(), then its while loop;    *)
(* AndFold is the loop body after right = self._parse_not_expr().          *)
AndFold(toks, left, right) ==
    IF right.ok
    THEN AndLoop(toks, AndNode(left, right.node), right.current)
    ELSE right

(* AndLoop without the implicit-AND branch *)
AndLoopExplicitOnly(toks, left, cur) ==
    IF cur < Len(toks) /\ TypeAt(toks, cur) = "AND"
    THEN AndFold(toks, left, ParseNotExpr(toks, cur + 1))
    ELSE Parsed(left, cur)

AndLoop(toks, left, cur) ==
    IF cur < Len(toks)
    THEN IF TypeAt(toks, cur) = "AND"
         THEN AndFold(toks, left, ParseNotExpr(toks, cur + 1))
         ELSE IF TypeAt(toks, cur) \in IMPLICIT_AND_STARTERS
         THEN AndFold(toks, left, ParseNotExpr(toks, cur))
         ELSE Parsed(left, cur)
    ELSE Parsed(left, cur)

AndStart(toks, left) ==
    IF left.ok THEN AndLoop(toks, left.node, left.current) ELSE left

ParseAndExpr(toks, cur) == AndStart(toks, ParseNotExpr(toks, cur))

(* NotWrap returning the operand without the NotNode *)
NotWrapDropped(expr) == expr

(* _parse_not_expr; NotWrap is return NotNode(expr) *)
NotWrap(expr) ==
    IF expr.ok THEN Parsed(NotNode(expr.node), expr.current) ELSE expr

(* _parse_not_expr with NOT taking the whole and-expression as operand *)
ParseNotExprLoose(toks, cur) ==
    IF cur < Len(toks) /\ TypeAt(toks, cur) = "NOT"
    THEN NotWrap(ParseAndExpr(toks, cur + 1))
    ELSE ParseAtom(toks, cur)

ParseNotExpr(toks, cur) ==
    IF cur < Len(toks) /\ TypeAt(toks, cur) = "NOT"
    THEN NotWrap(ParseNotExpr(toks, cur + 1))
    ELSE ParseAtom(toks, cur)

(* CloseParen without the check for the closing parenthesis *)
CloseParenUnchecked(toks, token, expr) ==
    IF ~expr.ok
    THEN expr
    ELSE IF expr.current >= Len(toks) \/ TypeAt(toks, expr.current) # "RPAREN"
    THEN Parsed(expr.node, expr.current)
    ELSE Parsed(expr.node, expr.current + 1)

(* _parse_atom; CloseParen is its LPAREN branch after                      *)
(* expr = self._parse_or_expr(), MakeRegex its REGEX branch.               *)
CloseParen(toks, token, expr) ==
    IF ~expr.ok
    THEN expr
    ELSE IF expr.current >= Len(toks) \/ TypeAt(toks, expr.current) # "RPAREN"
    THEN Raised(expr.current, <<"Missing closing parenthesis", token.position>>)
    ELSE Parsed(expr.node, expr.current + 1)

MakeRegex(token, cur, made) ==
    IF made.ok
    THEN Parsed(made.node, cur + 1)
    ELSE IF made.exc = "ValueError"
    THEN Raised(cur + 1, <<"Invalid regular expression", made.node.regex.pattern>>)
    ELSE Propagated(cur + 1, made.exc, <<"the repetition number is too large">>)

(* AtomOf taking any other token as a text operand *)
AtomOfLenient(toks, token, cur) ==
    IF token.type = "REGEX"
    THEN MakeRegex(token, cur, RegexNode(token.value))
    ELSE IF token.type = "LPAREN"
    THEN CloseParen(toks, token, ParseOrExpr(toks, cur + 1))
    ELSE Parsed(TextNode(token.value), cur + 1)

(* AtomOf parsing an and-expression, not an or-expression, after '(' *)
AtomOfGroupAnd(toks, token, cur) ==
    IF token.type = "TEXT"
    THEN Parsed(TextNode(token.value), cur + 1)
    ELSE IF token.type = "REGEX"
    THEN MakeRegex(token, cur, RegexNode(token.value))
    ELSE IF token.type = "LPAREN"
    THEN CloseParen(toks, token, ParseAndExpr(toks, cur + 1))
    ELSE Raised(cur, <<"Unexpected token", token.position, token.value>>)

AtomOf(toks, token, cur) ==
    IF token.type = "TEXT"
    THEN Parsed(TextNode(token.value), cur + 1)
    ELSE IF token.type = "REGEX"
    THEN MakeRegex(token, cur, RegexNode(token.value))
    ELSE IF token.type = "LPAREN"
    THEN CloseParen(toks, token, ParseOrExpr(toks, cur + 1))
    ELSE Raised(cur, <<"Unexpected token", token.position, token.value>>)

ParseAtom(toks, cur) ==
    IF cur >= Len(toks)
    THEN Raised(cur, <<"Unexpected end of query">>)
    ELSE AtomOf(toks, toks[cur + 1], cur)

(* parse after result = self._parse_or_expr() *)
ParseEnd(toks, parsed) ==
    IF ~parsed.ok
    THEN parsed
    ELSE IF parsed.current < Len(toks) - 1
    THEN Raised(parsed.current,
                <<"Unexpected token", toks[parsed.current + 1].position,
                  toks[parsed.current + 1].value>>)
    ELSE parsed

(* Parse without the check for a token list that holds only EOF, the     *)
(* empty query taken as the empty text                                    *)
ParseEmptyAccepted(toks) ==
    IF toks = <<>> \/ toks[Len(toks)].type # "EOF"
    THEN Raised(0, <<"Invalid token stream, missing EOF">>)
    ELSE IF Len(toks) = 1
    THEN Parsed(TextNode(<<>>), 0)
    ELSE ParseEnd(toks, ParseOrExpr(toks, 0))

(* Parser.parse, on a Parser just constructed (current = 0) *)
Parse(toks) ==
    IF toks = <<>> \/ toks[Len(toks)].type # "EOF"
    THEN Raised(0, <<"Invalid token stream, missing EOF">>)
    ELSE IF Len(toks) = 1
    THEN Raised(0, <<"Empty query">>)
    ELSE ParseEnd(toks, ParseOrExpr(toks, 0))

------------------------------------------------------------------------------
(* Lexer.tokenize: one iteration of its while loop, from offset pos with   *)
(* the token list toks. raised is TRUE where the iteration raises          *)
(* ValueError.                                                             *)

LexIteration(q, pos, toks) ==
    LET current_char == At(q, pos) IN
    IF IsSpace(current_char)
    THEN [position |-> pos + 1, tokens |-> toks, raised |-> FALSE]
    ELSE IF current_char = "("
    THEN [position |-> pos + 1,
          tokens |-> Append(toks, Token("LPAREN", <<"(">>, pos)), raised |-> FALSE]
    ELSE IF current_char = ")"
    THEN [position |-> pos + 1,
          tokens |-> Append(toks, Token("RPAREN", <<")">>, pos)), raised |-> FALSE]
    ELSE IF current_char = "/"
    THEN LET regex == ExtractRegex(q, pos) IN
         [position |-> regex.position,
          tokens |-> IF regex.value # <<>>
                     THEN Append(toks, Token("REGEX", regex.value,
                                             regex.position - Len(regex.value) - 2))
                     ELSE toks,
          raised |-> FALSE]
    ELSE IF IsTextStart(current_char)
    THEN LET ext == ExtractText(q, pos) IN
         [position |-> ext.position,
          tokens |-> Append(toks, TextToken(ext.text, ext.position)),
          raised |-> FALSE]
    ELSE [position |-> pos, tokens |-> toks, raised |-> TRUE]

(* EofToken recording offset 0 *)
EofTokenAtStart(pos) == Token("EOF", <<>>, 0)

EofToken(pos) == Token("EOF", <<>>, pos)

(* The whole of tokenize on a fresh Lexer. An iteration that changes       *)
(* neither the offset nor the token list repeats for ever: returns is      *)
(* FALSE there and where ValueError is raised.                             *)
RECURSIVE TokenizeFrom(_, _, _)
TokenizeFrom(q, pos, toks) ==
    IF pos < Len(q)
    THEN LET it == LexIteration(q, pos, toks) IN
         IF it.raised \/ (it.position = pos /\ it.tokens = toks)
         THEN [returns |-> FALSE, tokens |-> toks, position |-> pos]
         ELSE TokenizeFrom(q, it.position, it.tokens)
    ELSE [returns |-> TRUE, tokens |-> Append(toks, EofToken(pos)), position |-> pos]

Tokenize(q) == TokenizeFrom(q, 0, <<>>)

------------------------------------------------------------------------------
(* Inputs *)

(* Query fragments: concatenated without separators they give the queries  *)
(* of Spec.                                                                 *)
Pieces ==
    { <<"a">>, <<"i">>, <<"_">>, <<"1">>,
      <<"A","N","D">>, <<"o","r">>, <<"n","O","t">>,
      <<"a","n","d","r","o","i","d">>,
      <<" ">>, <<"\t","\n","\r">>,
      <<"(">>, <<")">>, <<"/">>, <<"\\","/">>,
      <<"\"">>, <<"'">>, <<"@">> }

RECURSIVE Concats(_, _)
Concats(parts, n) ==
    IF n = 0
    THEN {<<>>}
    ELSE LET shorter == Concats(parts, n - 1) IN
         shorter \cup {p \o s : p \in parts, s \in shorter}

Queries == Concats(Pieces, MaxPieces)

(* Words: joined by single blanks they give the queries of ParserSpec.     *)
Words ==
    { <<"a">>, <<"/","b","/","i">>,
      <<"A","N","D">>, <<"O","R">>, <<"N","O","T">>, <<"(">>, <<")">> }

RECURSIVE WordQueries(_)
WordQueries(n) ==
    IF n = 0
    THEN {<<>>}
    ELSE LET shorter == WordQueries(n - 1) IN
         shorter \cup Words \cup {w \o <<" ">> \o s : w \in Words, s \in shorter \ {<<>>}}

Texts == { <<>>, <<"a">>, <<"b">>, <<"a","b">>, <<"B">> }

ListTexts == { <<"a">>, <<"b">> }

RECURSIVE ListsUpTo(_)
ListsUpTo(n) ==
    IF n = 0
    THEN {<<>>}
    ELSE LET shorter == ListsUpTo(n - 1) IN
         shorter \cup {<<t>> \o l : t \in ListTexts, l \in shorter}

TextLists == ListsUpTo(MaxList)

(* Arguments of apply_query that are neither a str nor a list: an int and  *)
(* a dict                                                                  *)
OtherData == { [type |-> "int", value |-> 42], [type |-> "dict", value |-> <<>>] }

StrElem(t) == [type |-> "str", value |-> t]

IntElem == [type |-> "int", value |-> 1]

(* Lists that hold an element that is not a str *)
NonStrLists ==
    { <<IntElem>>, <<StrElem(<<"a">>), IntElem>>, <<IntElem, StrElem(<<"a">>)>>,
      <<StrElem(<<"b">>), IntElem, StrElem(<<"a">>)>> }

(* Grouped queries: an operand, NOT and an operand, or two operands joined *)
(* by AND, OR or a blank, in up to MaxNest pairs of parentheses, alone or  *)
(* joined with one more operand on either side or negated: the queries of  *)
(* GroupSpec.                                                              *)
GroupAtoms == { <<"a">>, <<"/","b","/","i">> }

Joins == { <<" ","A","N","D"," ">>, <<" ","O","R"," ">>, <<" ">> }

Negated(q) == <<"N","O","T"," ">> \o q

GroupInner ==
    GroupAtoms \cup {Negated(x) : x \in GroupAtoms}
        \cup {x \o j \o y : x \in GroupAtoms, j \in Joins, y \in GroupAtoms}

RECURSIVE Nested(_)
Nested(n) ==
    IF n = 0
    THEN GroupInner
    ELSE LET inner == Nested(n - 1) IN
         inner \cup {<<"(">> \o g \o <<")">> : g \in inner}

GroupQueries ==
    LET groups == Nested(MaxNest) IN
    groups \cup {Negated(g) : g \in groups}
        \cup {g \o j \o z : g \in groups, j \in Joins, z \in GroupAtoms}
        \cup {z \o j \o g : z \in GroupAtoms, j \in Joins, g \in groups}

(* Regex literals /body/flags: the queries of RegexSpec. *)
RegexBodies ==
    { <<>>, <<"a">>, <<"b">>, <<"a"," ","b">>, <<"a","\\","/","b">>, <<"(">>,
      <<"a","{","2","}">>, <<"a","{">> \o MAXREPEAT \o <<"}">>,
      <<"a","\\","/","i">> }

FlagLetters == {"i", "m", "s", "x", "g"}

RECURSIVE FlagStrings(_)
FlagStrings(n) ==
    IF n = 0
    THEN {<<>>}
    ELSE LET shorter == FlagStrings(n - 1) IN
         shorter \cup {<<c>> \o f : c \in FlagLetters, f \in shorter}

RegexLiteral(body, flags) == <<"/">> \o body \o <<"/">> \o flags

RegexQueries == {RegexLiteral(b, f) : b \in RegexBodies, f \in FlagStrings(MaxFlags)}

(* Quoted strings: an opening quote and up to MaxQuoted characters after   *)
(* it, among them both quotes and the backslash, so that the string is     *)
(* closed, left open, or followed by more of the query: the queries of     *)
(* QuoteSpec.                                                              *)
QuoteChars == {"a", "A", " ", "\\", "\"", "'"}

RECURSIVE Strings(_, _)
Strings(chars, n) ==
    IF n = 0
    THEN {<<>>}
    ELSE LET shorter == Strings(chars, n - 1) IN
         shorter \cup {<<c>> \o s : c \in chars, s \in shorter}

(* The queries and texts of ThreadSpec: trees of two and three leaves a    *)
(* thread walks in more than one step                                      *)
ThreadQueries ==
    { <<"a"," ","A","N","D"," ","/","b","/","i">>,
      <<"N","O","T"," ","a"," ","O","R"," ","/","b","/","i">>,
      <<"(","a"," ","O","R"," ","/","b","/","i",")"," ","a">>,
      <<"/","b","/","i"," ","A","N","D"," ","(","a"," ","O","R"," ","/","b","/",")">> }

ThreadTexts == { <<>>, <<"a">>, <<"B">>, <<"a","b">> }

Threads == 1 .. MaxThreads

QuoteQueries == {<<quote_char>> \o s : quote_char \in {"\"", "'"}, s \in Strings(QuoteChars, MaxQuoted)}

------------------------------------------------------------------------------
(* The state machine: parse_query(query) and then apply_query(ast, ...)    *)

NoError == [type |-> "none"]

NoData == [type |-> "none"]

QueryError(msg) == [type |-> "QueryError", msg |-> msg]

(* parse_query has constructed Lexer(query_str) *)
Init ==
    /\ query \in Queries
    /\ position = 0
    /\ tokens = <<>>
    /\ pc = "lex"
    /\ current = 0
    /\ ast = NoNode
    /\ error = NoError
    /\ text_data = NoData
    /\ result = NoData

(* tokenize has returned and parse_query has constructed Parser(tokens) *)
ParserInit ==
    /\ query \in WordQueries(MaxWords)
    /\ \E lexed \in {Tokenize(query)} :
        /\ lexed.returns
        /\ position = lexed.position
        /\ tokens = lexed.tokens
    /\ pc = "lexed"
    /\ current = 0
    /\ ast = NoNode
    /\ error = NoError
    /\ text_data = NoData
    /\ result = NoData

(* parse_query has constructed Lexer(query_str) for a regex literal *)
RegexInit ==
    /\ query \in RegexQueries
    /\ position = 0
    /\ tokens = <<>>
    /\ pc = "lex"
    /\ current = 0
    /\ ast = NoNode
    /\ error = NoError
    /\ text_data = NoData
    /\ result = NoData

(* tokenize has returned for a grouped query and parse_query has           *)
(* constructed Parser(tokens)                                              *)
GroupInit ==
    /\ query \in GroupQueries
    /\ \E lexed \in {Tokenize(query)} :
        /\ lexed.returns
        /\ position = lexed.position
        /\ tokens = lexed.tokens
    /\ pc = "lexed"
    /\ current = 0
    /\ ast = NoNode
    /\ error = NoError
    /\ text_data = NoData
    /\ result = NoData

(* parse_query has constructed Lexer(query_str) for a query that starts    *)
(* with a quote                                                            *)
QuoteInit ==
    /\ query \in QuoteQueries
    /\ position = 0
    /\ tokens = <<>>
    /\ pc = "lex"
    /\ current = 0
    /\ ast = NoNode
    /\ error = NoError
    /\ text_data = NoData
    /\ result = NoData

(* Lexer(query) has been constructed by a caller that keeps the object *)
LexerInit ==
    /\ query \in GroupQueries
    /\ position = 0
    /\ tokens = <<>>
    /\ pc = "lex"
    /\ current = 0
    /\ ast = NoNode
    /\ error = NoError
    /\ text_data = NoData
    /\ result = NoData

(* parse_query has returned the tree of its query *)
ThreadInit ==
    /\ query \in ThreadQueries
    /\ \E lexed \in {Tokenize(query)} :
        /\ lexed.returns
        /\ position = lexed.position
        /\ tokens = lexed.tokens
        /\ \E parsed \in {Parse(lexed.tokens)} :
            /\ parsed.ok
            /\ current = parsed.current
            /\ ast = parsed.node
    /\ pc = "parsed"
    /\ error = NoError
    /\ text_data = NoData
    /\ result = NoData

InLoop == pc = "lex" /\ position < Len(query)

LexAdvance ==
    LET it == LexIteration(query, position, tokens) IN
    /\ position' = it.position
    /\ tokens' = it.tokens
    /\ UNCHANGED <<query, pc, current, ast, error, text_data, result>>

LexWhitespace ==
    /\ InLoop
    /\ IsSpace(At(query, position))
    /\ LexAdvance

LexLParen ==
    /\ InLoop
    /\ At(query, position) = "("
    /\ LexAdvance

LexRParen ==
    /\ InLoop
    /\ At(query, position) = ")"
    /\ LexAdvance

LexRegex ==
    /\ InLoop
    /\ At(query, position) = "/"
    /\ LexAdvance

LexText ==
    /\ InLoop
    /\ IsTextStart(At(query, position))
    /\ LexAdvance

(* the else branch: ValueError, which parse_query turns into QueryError *)
LexError ==
    /\ InLoop
    /\ LexIteration(query, position, tokens).raised
    /\ pc' = "failed"
    /\ error' = QueryError(<<"Unrecognized character", At(query, position), position>>)
    /\ UNCHANGED <<query, position, tokens, current, ast, text_data, result>>

(* the loop has ended: the EOF token, then Parser(tokens) *)
LexEOF ==
    /\ pc = "lex"
    /\ position >= Len(query)
    /\ tokens' = Append(tokens, EofToken(position))
    /\ pc' = "lexed"
    /\ current' = 0
    /\ UNCHANGED <<query, position, ast, error, text_data, result>>

(* tokenize called once more on the Lexer after it has returned: it       *)
(* starts from self.position and self.tokens as the last call left them.  *)
(* MaxCalls bounds the calls on one Lexer.                                 *)
TokenizeAgain ==
    /\ pc = "lexed"
    /\ Cardinality({i \in DOMAIN tokens : tokens[i].type = "EOF"}) < MaxCalls
    /\ LET again == TokenizeFrom(query, position, tokens) IN
       /\ again.returns
       /\ tokens' = again.tokens
       /\ position' = again.position
    /\ UNCHANGED <<query, pc, current, ast, error, text_data, result>>

(* parser.parse() and the end of parse_query: its except clause turns a    *)
(* ValueError into QueryError and lets any other exception pass            *)
ParseStep ==
    /\ pc = "lexed"
    /\ LET parsed == Parse(tokens) IN
       /\ current' = parsed.current
       /\ IF parsed.ok
          THEN ast' = parsed.node /\ pc' = "parsed" /\ error' = error
          ELSE /\ ast' = ast
               /\ pc' = "failed"
               /\ error' = IF parsed.exc = "ValueError"
                           THEN QueryError(parsed.msg)
                           ELSE [type |-> parsed.exc, msg |-> parsed.msg]
    /\ UNCHANGED <<query, position, tokens, text_data, result>>

(* apply_query(ast, t) for a str t *)
ApplyStr ==
    /\ pc = "parsed"
    /\ \E t \in Texts :
        /\ text_data' = [type |-> "str", value |-> t]
        /\ result' = [type |-> "bool", value |-> Evaluate(ast, t)]
    /\ pc' = "applied"
    /\ UNCHANGED <<query, position, tokens, current, ast, error>>

(* Filter keeping each matching text once *)
FilterOnce(pred, data) ==
    SelectSeq([i \in DOMAIN data |->
                  IF \E j \in 1 .. (i - 1) : data[j] = data[i] THEN <<"dropped">> ELSE data[i]],
              LAMBDA t : t # <<"dropped">> /\ Call(pred, t))

(* list(filter(pred, data)) *)
Filter(pred, data) == SelectSeq(data, LAMBDA t : Call(pred, t))

(* apply_query(ast, L) for a list L of str *)
ApplyList ==
    /\ pc = "parsed"
    /\ \E L \in TextLists :
        /\ text_data' = [type |-> "list", value |-> L]
        /\ result' = [type |-> "list", value |-> Filter(Compile(ast), L)]
    /\ pc' = "applied"
    /\ UNCHANGED <<query, position, tokens, current, ast, error>>

(* A call of a closure _compile returned on x raises TypeError: the first  *)
(* leaf closure reached ('value in text', search(text)) does so when x is  *)
(* not a str, and the closures above it pass the exception on.             *)
RECURSIVE CallRaises(_, _)
CallRaises(closure, x) ==
    CASE closure.fn \in {"text_eval", "regex_eval"} -> x.type # "str"
      [] closure.fn = "not_eval" -> CallRaises(closure.child_eval, x)
      [] closure.fn \in {"and_eval", "or_eval"} -> CallRaises(closure.left_eval, x)

(* apply_query(ast, L) for a list L that holds an element that is not a    *)
(* str: list(filter(...)) raises at that element and the except clause     *)
(* raises QueryError                                                       *)
ApplyNonStrList ==
    /\ pc = "parsed"
    /\ \E L \in NonStrLists :
        /\ text_data' = [type |-> "list_nonstr", value |-> L]
        /\ \E i \in DOMAIN L : CallRaises(Compile(ast), L[i])
    /\ error' = QueryError(<<"Error evaluating query">>)
    /\ pc' = "raised"
    /\ UNCHANGED <<query, position, tokens, current, ast, result>>

(* apply_query(ast, d) for d neither a str nor a list: the else branch *)
ApplyOther ==
    /\ pc = "parsed"
    /\ \E d \in OtherData : text_data' = d
    /\ error' = [type |-> "TypeError", msg |-> <<"text_data must be a str or list of str">>]
    /\ pc' = "raised"
    /\ UNCHANGED <<query, position, tokens, current, ast, result>>

(* Threads start on the one tree, each with a text of its own, each       *)
(* either in node.evaluate(text) or in a predicate node._compile()         *)
(* returned, called with the text                                          *)
ThreadsStart ==
    /\ pc = "parsed"
    /\ \E texts \in [Threads -> ThreadTexts], modes \in [Threads -> {"evaluate", "call"}] :
        /\ text_data' = [type |-> "threads", value |-> texts]
        /\ result' = [type |-> "threads",
                      value |-> [i \in Threads |->
                          [mode |-> modes[i],
                           captured |-> IF modes[i] = "call"
                                        THEN Captured(Compile(ast))
                                        ELSE NoNode,
                           run |-> Running(FirstLeaf(ast, <<>>))]]]
    /\ pc' = "evaluating"
    /\ UNCHANGED <<query, position, tokens, current, ast, error>>

(* the tree thread th reads: the nodes themselves in evaluate, the values  *)
(* the closures captured in a compiled predicate                           *)
TreeOf(th) == IF th.mode = "evaluate" THEN ast ELSE th.captured

(* thread i runs one leaf *)
ThreadStep(i) ==
    /\ pc = "evaluating"
    /\ ~result.value[i].run.done
    /\ LET th == result.value[i]
           text == text_data.value[i]
           value == LeafValue(Sub(TreeOf(th), th.run.at), text)
       IN /\ result' = [result EXCEPT
                            !.value[i].run = Resume(TreeOf(th), th.run.at, value)]
          /\ ast' = TreeAfter(ast, th.run.at, text)
    /\ UNCHANGED <<query, position, tokens, pc, current, error, text_data>>

Lex ==
    \/ LexWhitespace
    \/ LexLParen
    \/ LexRParen
    \/ LexRegex
    \/ LexText
    \/ LexError
    \/ LexEOF

Next ==
    \/ Lex
    \/ ParseStep
    \/ ApplyStr
    \/ ApplyList
    \/ ApplyNonStrList
    \/ ApplyOther

Spec == Init /\ [][Next]_vars

(* The calls run to their end: a step that can be taken is taken. *)
LiveSpec == Init /\ [][Next]_vars /\ WF_vars(Next)

ParserNext ==
    \/ ParseStep
    \/ ApplyStr
    \/ ApplyList
    \/ ApplyNonStrList
    \/ ApplyOther

ParserSpec == ParserInit /\ [][ParserNext]_vars

RegexNext ==
    \/ LexRegex
    \/ LexEOF
    \/ ParseStep
    \/ ApplyStr

RegexSpec == RegexInit /\ [][RegexNext]_vars

GroupNext ==
    \/ ParseStep
    \/ ApplyStr

GroupSpec == GroupInit /\ [][GroupNext]_vars

QuoteNext ==
    \/ LexWhitespace
    \/ LexText
    \/ LexError
    \/ LexEOF
    \/ ParseStep
    \/ ApplyStr

QuoteSpec == QuoteInit /\ [][QuoteNext]_vars

LexerNext ==
    \/ LexWhitespace
    \/ LexLParen
    \/ LexRParen
    \/ LexRegex
    \/ LexText
    \/ LexEOF
    \/ TokenizeAgain

LexerSpec == LexerInit /\ [][LexerNext]_vars

ThreadNext ==
    \/ ThreadsStart
    \/ \E i \in Threads : ThreadStep(i)

ThreadSpec == ThreadInit /\ [][ThreadNext]_vars

TypeOK ==
    /\ pc \in {"lex", "lexed", "parsed", "failed", "applied", "raised", "evaluating"}
    /\ position \in 0 .. Len(query)
    /\ current \in 0 .. Len(tokens)
    /\ error.type \in {"none", "QueryError", "OverflowError", "TypeError"}
    /\ (pc = "failed") = (error.type \in {"QueryError", "OverflowError"} /\ ast = NoNode)
    /\ (pc = "raised") = (error.type \in {"QueryError", "TypeError"} /\ ast # NoNode)
    /\ (pc \in {"parsed", "applied", "raised", "evaluating"}) = (ast # NoNode)

------------------------------------------------------------------------------
(* Properties *)

RECURSIVE Kinds(_)
Kinds(node) ==
    CASE node.kind \in {"Text", "Regex"} -> {node.kind}
      [] node.kind = "Not" -> {"Not"} \cup Kinds(node.child)
      [] node.kind \in {"And", "Or"} -> {node.kind} \cup Kinds(node.left) \cup Kinds(node.right)
      [] OTHER -> {}

(* C1: for every tree parse_query returns and every text, the closure      *)
(* _compile builds answers as the tree walk evaluate does.                 *)
C1_CompiledEqualsEvaluate ==
    pc = "parsed" =>
        \A t \in Texts : Call(Compile(ast), t) = Evaluate(ast, t)

(* a parsed tree that holds all five node kinds and is true of one text    *)
(* and false of another                                                    *)
C1_Witness ==
    /\ pc = "parsed"
    /\ Kinds(ast) = {"Text", "Regex", "Not", "And", "Or"}
    /\ \E t1, t2 \in Texts : Call(Compile(ast), t1) /\ ~Call(Compile(ast), t2)

(* the indices of data whose element the tree walk accepts *)
Matching(node, data) == {j \in DOMAIN data : Evaluate(node, data[j])}

(* the i-th smallest member of a set of indices *)
NthOf(idx, i) == CHOOSE j \in idx : Cardinality({k \in idx : k < j}) = i - 1

(* C2: apply_query on a list returns the elements the single-text          *)
(* apply_query accepts, in order, duplicates kept; the empty list and a    *)
(* list without a match give the empty list, and nothing is raised.        *)
C2_ListIsMatchingSubsequence ==
    (pc = "applied" /\ text_data.type = "list") =>
        LET idx == Matching(ast, text_data.value) IN
        /\ error = NoError
        /\ result.type = "list"
        /\ Len(result.value) = Cardinality(idx)
        /\ \A i \in 1 .. Len(result.value) :
               result.value[i] = text_data.value[NthOf(idx, i)]
        /\ (idx = {} => result.value = <<>>)

(* [a, b, a] filtered by a tree that accepts a and not b: order and the    *)
(* duplicate are kept, the non-match is left out                           *)
C2_Witness ==
    /\ pc = "applied"
    /\ text_data = [type |-> "list", value |-> << <<"a">>, <<"b">>, <<"a">> >>]
    /\ result = [type |-> "list", value |-> << <<"a">>, <<"a">> >>]

(* the tokens before the final EOF *)
Body(toks) == SubSeq(toks, 1, Len(toks) - 1)

Types(toks) == [i \in DOMAIN toks |-> toks[i].type]

IsOperand(tok) == tok.type \in {"TEXT", "REGEX"}

Leaf(tok) ==
    IF tok.type = "TEXT" THEN TextNode(tok.value) ELSE RegexNode(tok.value).node

LastIndex(ts, type) ==
    CHOOSE k \in DOMAIN ts :
        ts[k].type = type /\ \A j \in DOMAIN ts : j > k => ts[j].type # type

(* The tree the precedence NOT > AND > OR gives a well-formed token        *)
(* sequence without parentheses, read from its right end: the last OR      *)
(* splits off the last AND-group, the last operand with the NOTs before it *)
(* is the last factor of a group.                                          *)
RECURSIVE RefNot(_)
RefNot(ts) ==
    IF ts[1].type = "NOT" THEN NotNode(RefNot(Tail(ts))) ELSE Leaf(ts[1])

FactorStart(ts) ==
    CHOOSE j \in DOMAIN ts :
        /\ \A i \in j .. (Len(ts) - 1) : ts[i].type = "NOT"
        /\ (j > 1 => ts[j - 1].type # "NOT")

RECURSIVE RefAnd(_)
RefAnd(ts) ==
    LET j == FactorStart(ts)
        factor == RefNot(SubSeq(ts, j, Len(ts)))
        before == SubSeq(ts, 1, j - 1)
        group == IF before # <<>> /\ before[Len(before)].type = "AND"
                 THEN SubSeq(before, 1, Len(before) - 1)
                 ELSE before
    IN IF before = <<>> THEN factor ELSE AndNode(RefAnd(group), factor)

RECURSIVE RefOr(_)
RefOr(ts) ==
    IF \E k \in DOMAIN ts : ts[k].type = "OR"
    THEN LET k == LastIndex(ts, "OR") IN
         OrNode(RefOr(SubSeq(ts, 1, k - 1)), RefAnd(SubSeq(ts, k + 1, Len(ts))))
    ELSE RefAnd(ts)

NoParens(ts) == \A i \in DOMAIN ts : ts[i].type \notin {"LPAREN", "RPAREN"}

(* C3: a query without parentheses parses by the precedence NOT > AND >    *)
(* OR: OR splits it into AND-groups and a NOT takes only the               *)
(* not-expression that follows it.                                         *)
C3_Precedence ==
    (pc \in {"parsed", "applied"} /\ NoParens(Body(tokens))) =>
        ast = RefOr(Body(tokens))

(* 'x AND y OR z' parsed to Or(And(x, y), z) *)
C3_Witness ==
    /\ pc = "parsed"
    /\ Types(tokens) = <<"TEXT", "AND", "REGEX", "OR", "TEXT", "EOF">>
    /\ ast = OrNode(AndNode(Leaf(tokens[1]), Leaf(tokens[3])), Leaf(tokens[5]))

(* toks with an AND token put between every operand end (TEXT, REGEX or    *)
(* ')') and a directly following operand start (TEXT, REGEX, '(' or NOT)   *)
RECURSIVE WithExplicitAnd(_)
WithExplicitAnd(toks) ==
    IF Len(toks) <= 1
    THEN toks
    ELSE IF /\ toks[1].type \in {"TEXT", "REGEX", "RPAREN"}
            /\ toks[2].type \in {"TEXT", "REGEX", "LPAREN", "NOT"}
         THEN <<toks[1], Token("AND", AND_KW, toks[2].position)>>
                  \o WithExplicitAnd(Tail(toks))
         ELSE <<toks[1]>> \o WithExplicitAnd(Tail(toks))

(* C4: a token sequence and the same sequence with AND written at every    *)
(* implicit adjacency parse to the same tree, or both are rejected.        *)
C4_ImplicitAndIsExplicitAnd ==
    LET explicit == Parse(WithExplicitAnd(tokens)) IN
    /\ (pc \in {"parsed", "applied"} => explicit.ok /\ explicit.node = ast)
    /\ (pc = "failed" => ~explicit.ok)

(* a parsed query with two implicit adjacencies, one of them before NOT *)
C4_Witness ==
    /\ pc = "parsed"
    /\ Len(WithExplicitAnd(tokens)) = Len(tokens) + 2
    /\ \E i \in 2 .. Len(tokens) : tokens[i].type = "NOT" /\ IsOperand(tokens[i - 1])

(* ts is n >= 2 operands joined by the operator op throughout; op is AND,  *)
(* OR, or "" for plain adjacency                                           *)
IsChain(ts, op) ==
    IF op = ""
    THEN Len(ts) >= 2 /\ \A i \in DOMAIN ts : IsOperand(ts[i])
    ELSE /\ Len(ts) >= 3
         /\ Len(ts) % 2 = 1
         /\ \A i \in DOMAIN ts :
                IF i % 2 = 1 THEN IsOperand(ts[i]) ELSE ts[i].type = op

ChainOperands(ts, op) ==
    IF op = "" THEN ts ELSE [i \in 1 .. ((Len(ts) + 1) \div 2) |-> ts[2 * i - 1]]

RECURSIVE LeftFold(_, _)
LeftFold(kind, operands) ==
    IF Len(operands) = 1
    THEN Leaf(operands[1])
    ELSE [kind |-> kind,
          left |-> LeftFold(kind, SubSeq(operands, 1, Len(operands) - 1)),
          right |-> Leaf(operands[Len(operands)])]

(* C5: a chain of n >= 2 operands joined by one operator (AND, adjacency   *)
(* or OR) parses to the left-leaning tree.                                 *)
C5_LeftAssociative ==
    \A op \in {"AND", "OR", ""} :
        IsChain(Body(tokens), op) =>
            /\ pc # "failed"
            /\ pc \in {"parsed", "applied"} =>
                   ast = LeftFold(IF op = "OR" THEN "Or" ELSE "And",
                                  ChainOperands(Body(tokens), op))

(* 'x AND y AND z' parsed to And(And(x, y), z) *)
C5_Witness ==
    /\ pc = "parsed"
    /\ Types(tokens) = <<"TEXT", "AND", "REGEX", "AND", "TEXT", "EOF">>
    /\ ast = AndNode(AndNode(Leaf(tokens[1]), Leaf(tokens[3])), Leaf(tokens[5]))

(* ts is k >= 1 NOT tokens and then one operand *)
IsNotRun(ts) ==
    /\ Len(ts) >= 2
    /\ IsOperand(ts[Len(ts)])
    /\ \A i \in 1 .. (Len(ts) - 1) : ts[i].type = "NOT"

RECURSIVE NotPower(_, _)
NotPower(k, node) == IF k = 0 THEN node ELSE NotNode(NotPower(k - 1, node))

(* C6: k >= 1 NOTs before an operand x parse to k nested Not nodes around  *)
(* x, and the tree evaluates as x for even k and as the negation of x for  *)
(* odd k.                                                                  *)
C6_NotRun ==
    IsNotRun(Body(tokens)) =>
        LET k == Len(tokens) - 2
            x == Leaf(tokens[k + 1])
            parity(b) == IF k % 2 = 0 THEN b ELSE ~b
        IN /\ pc # "failed"
           /\ pc \in {"parsed", "applied"} => ast = NotPower(k, x)
           /\ pc = "parsed" =>
                  \A t \in Texts : Evaluate(ast, t) = parity(Evaluate(x, t))
           /\ (pc = "applied" /\ text_data.type = "str") =>
                  result.value = parity(Evaluate(x, text_data.value))

(* NOT NOT NOT x applied to a text x rejects: the result is TRUE *)
C6_Witness ==
    /\ pc = "applied"
    /\ Types(tokens) = <<"NOT", "NOT", "NOT", "TEXT", "EOF">>
    /\ text_data.type = "str"
    /\ ~Evaluate(Leaf(tokens[4]), text_data.value)
    /\ result = [type |-> "bool", value |-> TRUE]

(* C7: a quoted string always lexes to a TEXT token, also when its        *)
(* content is AND, OR or NOT in any letter case.                           *)
C7_QuotedIsText ==
    [][(pc = "lex" /\ position < Len(query) /\ At(query, position) \in {"\"", "'"})
           => /\ Len(tokens') = Len(tokens) + 1
              /\ tokens'[Len(tokens')].type = "TEXT"]_vars

WordChar(c) == IsAlnum(c) \/ c = "_"

(* the length of the maximal run of letters, digits and '_' at offset pos *)
RunLength(q, pos) ==
    CHOOSE n \in 0 .. (Len(q) - pos) :
        /\ \A i \in pos .. (pos + n - 1) : WordChar(At(q, i))
        /\ (pos + n = Len(q) \/ ~WordChar(At(q, pos + n)))

KeywordOf(run) ==
    IF Upper(run) = AND_KW THEN "AND"
    ELSE IF Upper(run) = OR_KW THEN "OR"
    ELSE IF Upper(run) = NOT_KW THEN "NOT"
    ELSE "TEXT"

(* C8: an unquoted maximal run of letters, digits and '_' lexes to one     *)
(* token: the operator AND, OR or NOT exactly when its upper-cased text    *)
(* is that keyword, otherwise TEXT holding the run as written.             *)
C8_KeywordsWholeWordAnyCase ==
    [][(pc = "lex" /\ position < Len(query) /\ WordChar(At(query, position)))
           => LET run == Slice(query, position, position + RunLength(query, position))
                  tok == tokens'[Len(tokens')]
              IN /\ position' = position + Len(run)
                 /\ Len(tokens') = Len(tokens) + 1
                 /\ SubSeq(tokens', 1, Len(tokens)) = tokens
                 /\ tok.type = KeywordOf(run)
                 /\ (tok.type = "TEXT" => tok.value = run)]_vars

(* 'or android' lexed: lower-case or is the operator, android one TEXT *)
C8_Witness ==
    /\ pc = "lexed"
    /\ query = <<"o","r"," ","a","n","d","r","o","i","d">>
    /\ Types(tokens) = <<"OR", "TEXT", "EOF">>
    /\ tokens[2].value = <<"a","n","d","r","o","i","d">>

AllSpace(q) == \A i \in DOMAIN q : q[i] \in {" ", "\t", "\n", "\r"}

(* C9: the empty query and a query of white space only end in QueryError;  *)
(* no node is returned for a token list that holds only EOF.               *)
C9_EmptyQueryRaises ==
    /\ AllSpace(query) =>
           /\ pc \in {"lex", "lexed", "failed"}
           /\ pc = "lex" => tokens = <<>>
           /\ pc = "lexed" => ~Parse(tokens).ok
           /\ pc = "failed" => error.type = "QueryError"
    /\ pc \in {"parsed", "applied"} =>
           \E i \in DOMAIN tokens : tokens[i].type # "EOF"

(* a query of a blank, a tab, a newline and a carriage return, rejected *)
C9_Witness ==
    /\ pc = "failed"
    /\ query = <<" ", "\t", "\n", "\r">>
    /\ error = QueryError(<<"Empty query">>)

(* an operator of ts lacks an operand *)
MissingOperand(ts) ==
    \/ ts[1].type \in {"AND", "OR"}
    \/ ts[Len(ts)].type \in {"AND", "OR", "NOT"}
    \/ \E i \in 1 .. (Len(ts) - 1) :
           \/ ts[i].type = "NOT" /\ ts[i + 1].type \in {"AND", "OR", "RPAREN"}
           \/ ts[i].type \in {"AND", "OR"} /\ ts[i + 1].type \in {"AND", "OR"}

(* C10: a query in which an operator lacks an operand (leading AND or OR,  *)
(* trailing AND, OR or NOT, NOT before AND, OR or ')', two binary          *)
(* operators in a row) ends in QueryError and yields no node.              *)
C10_MissingOperandRaises ==
    (Body(tokens) # <<>> /\ MissingOperand(Body(tokens))) =>
        /\ pc \in {"lexed", "failed"}
        /\ pc = "lexed" => ~Parse(tokens).ok
        /\ pc = "failed" => error.type = "QueryError"

(* 'x AND AND y' rejected *)
C10_Witness ==
    /\ pc = "failed"
    /\ Types(tokens) = <<"TEXT", "AND", "AND", "TEXT", "EOF">>
    /\ error.type = "QueryError"

(* every ')' of ts closes an earlier '(' and every '(' is closed *)
RECURSIVE ParenScan(_, _, _)
ParenScan(ts, i, depth) ==
    IF i > Len(ts)
    THEN depth = 0
    ELSE IF ts[i].type = "LPAREN"
    THEN ParenScan(ts, i + 1, depth + 1)
    ELSE IF ts[i].type = "RPAREN"
    THEN depth > 0 /\ ParenScan(ts, i + 1, depth - 1)
    ELSE ParenScan(ts, i + 1, depth)

Balanced(ts) == ParenScan(ts, 1, 0)

EmptyGroup(ts) ==
    \E i \in 1 .. (Len(ts) - 1) : ts[i].type = "LPAREN" /\ ts[i + 1].type = "RPAREN"

(* C11: a query with an '(' that is never closed, a ')' that closes        *)
(* nothing, or an empty group '()' ends in QueryError and yields no node.  *)
C11_ParenthesesBalancedNonEmpty ==
    (~Balanced(Body(tokens)) \/ EmptyGroup(Body(tokens))) =>
        /\ pc \in {"lexed", "failed"}
        /\ pc = "lexed" => ~Parse(tokens).ok
        /\ pc = "failed" => error.type = "QueryError" /\ ast = NoNode

(* '( x AND y' rejected for the parenthesis that is never closed *)
C11_Witness ==
    /\ pc = "failed"
    /\ Types(tokens) = <<"LPAREN", "TEXT", "AND", "REGEX", "EOF">>
    /\ error = QueryError(<<"Missing closing parenthesis", 0>>)

(* the characters tokenize accepts outside quoted strings and regex        *)
(* literals: white space, '(', ')', '/', a letter, a digit, '_', a quote   *)
Recognized(c) ==
    \/ c \in {" ", "\t", "\n", "\r", "(", ")", "/", "_", "\"", "'"}
    \/ c \in Letters \cup Digits

(* the number of backslashes that stand directly before offset j of q,     *)
(* none of them before offset from                                         *)
BackslashRun(q, j, from) ==
    CHOOSE n \in 0 .. (j - from) :
        /\ \A i \in (j - n) .. (j - 1) : At(q, i) = "\\"
        /\ (n = j - from \/ At(q, j - n - 1) # "\\")

(* the delimiter (a quote or '/') at offset p of q is closed at offset e:  *)
(* the first later occurrence that no backslash escapes                    *)
Closes(q, p, e) ==
    /\ At(q, e) = At(q, p)
    /\ BackslashRun(q, e, p + 1) % 2 = 0
    /\ \A j \in (p + 1) .. (e - 1) :
           At(q, j) = At(q, p) => BackslashRun(q, j, p + 1) % 2 = 1

(* the length of the run of letters at offset p of q *)
LettersFrom(q, p) ==
    CHOOSE n \in 0 .. (Len(q) - p) :
        /\ \A i \in p .. (p + n - 1) : At(q, i) \in Letters
        /\ (p + n = Len(q) \/ At(q, p + n) \notin Letters)

(* offset k of q is outside every quoted string and regex literal, and     *)
(* between offset p, itself outside, and k there are only recognized       *)
(* characters and complete literals (a regex literal with its flags)       *)
RECURSIVE Outside(_, _, _)
Outside(q, p, k) ==
    IF p >= k
    THEN p = k
    ELSE IF At(q, p) \in {"/", "\"", "'"}
    THEN IF \E e \in (p + 1) .. (k - 1) : Closes(q, p, e)
         THEN LET e == CHOOSE e \in (p + 1) .. (k - 1) : Closes(q, p, e) IN
              Outside(q, IF At(q, p) = "/" THEN e + 1 + LettersFrom(q, e + 1) ELSE e + 1, k)
         ELSE FALSE
    ELSE Recognized(At(q, p)) /\ Outside(q, p + 1, k)

(* offset k of q holds the first unrecognized character outside quoted     *)
(* strings and regex literals                                              *)
FirstOutside(q, k) == ~Recognized(At(q, k)) /\ Outside(q, 0, k)

(* q is mid between two delimiters d, mid holding an unrecognized          *)
(* character and neither d nor a backslash                                 *)
Encloses(q, d) ==
    /\ Len(q) >= 3
    /\ q[1] = d
    /\ q[Len(q)] = d
    /\ \E i \in 2 .. (Len(q) - 1) : ~Recognized(q[i])
    /\ \A i \in 2 .. (Len(q) - 1) : q[i] # d /\ q[i] # "\\"

Enclosed(q) == SubSeq(q, 2, Len(q) - 1)

(* C12: the first unrecognized character outside quoted strings and regex  *)
(* literals stops tokenize there with an error naming the character and    *)
(* its offset, reported as QueryError; between quotes or between the       *)
(* slashes of a regex literal the same character is part of the token.     *)
C12_UnrecognizedCharacter ==
    /\ \A k \in 0 .. (Len(query) - 1) :
           FirstOutside(query, k) =>
               /\ pc \in {"lex", "failed"}
               /\ position <= k
               /\ (pc = "lex" /\ position = k) => ENABLED LexError
               /\ pc = "failed" =>
                      /\ error = QueryError(<<"Unrecognized character", At(query, k), k>>)
                      /\ ast = NoNode
    /\ \A d \in {"\"", "'", "/"} :
           (Encloses(query, d) /\ pc # "lex") =>
               /\ Types(tokens) = <<IF d = "/" THEN "REGEX" ELSE "TEXT", "EOF">>
               /\ tokens[1].value = Enclosed(query)
               /\ pc = "failed" => error.msg[1] # "Unrecognized character"
               /\ (d # "/" /\ pc = "lexed") => Parse(tokens).ok
               /\ (d # "/" /\ pc \in {"parsed", "applied"}) => ast = TextNode(Enclosed(query))

(* 'a @' stopped at the '@' at offset 2, after the TEXT token of a *)
C12_Witness ==
    /\ pc = "failed"
    /\ query = <<"a", " ", "@">>
    /\ Types(tokens) = <<"TEXT">>
    /\ error = QueryError(<<"Unrecognized character", "@", 2>>)

(* the '/' at offset p of q has no later unescaped '/' *)
Unterminated(q, p) ==
    /\ At(q, p) = "/"
    /\ \A j \in (p + 1) .. (Len(q) - 1) :
           At(q, j) = "/" => BackslashRun(q, j, p + 1) % 2 = 1

(* C13: where the scan stands at a '/' that no later unescaped '/' closes, *)
(* tokenize has made no REGEX token of it and raises, so that parse_query  *)
(* ends in QueryError.                                                     *)
C13_UnterminatedRegexRaises ==
    (pc = "lex" /\ position < Len(query) /\ Unterminated(query, position)) =>
        /\ \A i \in DOMAIN tokens : tokens[i].position < position
        /\ ENABLED LexError

(* C14: parse_query ends on every query, with a node or with an error. *)
C14_ParseQueryTerminates ==
    <>(pc \in {"parsed", "failed", "applied"})

(* q is '//' and then letters only: a regex literal with an empty body,    *)
(* with or without flags                                                   *)
EmptyBodyRegex(q) ==
    /\ Len(q) >= 2
    /\ q[1] = "/"
    /\ q[2] = "/"
    /\ \A i \in 3 .. Len(q) : q[i] \in Letters

(* C15: a regex literal with an empty body, '//' followed by any flag      *)
(* letters, never yields a node: parse_query ends in QueryError.           *)
C15_EmptyRegexRaises ==
    EmptyBodyRegex(query) =>
        /\ pc \in {"lex", "lexed", "failed"}
        /\ pc = "lexed" => ~Parse(tokens).ok
        /\ pc = "failed" => error.type = "QueryError"

(* the Regex nodes of a tree *)
RECURSIVE RegexNodes(_)
RegexNodes(node) ==
    CASE node.kind = "Regex" -> {node}
      [] node.kind = "Not" -> RegexNodes(node.child)
      [] node.kind \in {"And", "Or"} -> RegexNodes(node.left) \cup RegexNodes(node.right)
      [] OTHER -> {}

(* C16: a regex literal whose pattern does not compile is rejected by      *)
(* parse_query with QueryError; every Regex node of a returned tree holds  *)
(* a compiled pattern and apply_query on the tree raises nothing.          *)
C16_InvalidPatternRejectedAtParse ==
    /\ (\E i \in DOMAIN tokens :
            tokens[i].type = "REGEX" /\ ~RegexNode(tokens[i].value).ok) =>
           /\ pc \in {"lex", "lexed", "failed"}
           /\ pc = "lexed" => ~Parse(tokens).ok
           /\ pc = "failed" => error.type = "QueryError" /\ ast = NoNode
    /\ pc \in {"parsed", "applied"} =>
           \A n \in RegexNodes(ast) : n.regex.ok
    /\ pc = "applied" => error = NoError /\ result.type \in {"bool", "list"}

(* the number of Text and Regex leaves of a tree *)
RECURSIVE Leaves(_)
Leaves(node) ==
    CASE node.kind \in {"Text", "Regex"} -> 1
      [] node.kind = "Not" -> Leaves(node.child)
      [] node.kind \in {"And", "Or"} -> Leaves(node.left) + Leaves(node.right)
      [] OTHER -> 0

(* C17: parse_query ends with a complete tree or with QueryError and       *)
(* nothing else: every failure (lexing, parsing, compiling a pattern) is   *)
(* reported as QueryError with no node, and a returned tree covers the     *)
(* whole query, every operand token having become one leaf.                *)
C17_QueryErrorOrCompleteTree ==
    /\ pc \in {"lex", "lexed"} => error = NoError /\ ast = NoNode
    /\ pc = "failed" => error.type = "QueryError" /\ ast = NoNode
    /\ pc = "parsed" =>
           /\ error = NoError
           /\ tokens[Len(tokens)] = EofToken(Len(query))
           /\ current = Len(tokens) - 1
           /\ Leaves(ast) = Cardinality({i \in DOMAIN tokens : IsOperand(tokens[i])})

(* C18: apply_query raises the usage error TypeError, not QueryError, for  *)
(* every argument that is neither a str nor a list of str (an int, a dict, *)
(* a list that holds a non-str), and never for a str or a list of str.     *)
C18_UsageErrorForOtherData ==
    pc \in {"applied", "raised"} =>
        IF text_data.type \in {"str", "list"}
        THEN pc = "applied" /\ error = NoError
        ELSE pc = "raised" /\ error.type = "TypeError" /\ result = NoData

(* the option a flag letter names *)
OptionOf(c) ==
    CASE c = "i" -> "IGNORECASE"
      [] c = "m" -> "MULTILINE"
      [] c = "s" -> "DOTALL"
      [] c = "x" -> "VERBOSE"

OptionsNamed(f) == {OptionOf(f[i]) : i \in DOMAIN f}

AllValidFlags(f) == \A i \in DOMAIN f : f[i] \in {"i", "m", "s", "x"}

RECURSIVE Unwrap(_)
Unwrap(ts) ==
    IF /\ Len(ts) >= 2
       /\ ts[1].type = "LPAREN"
       /\ ts[Len(ts)].type = "RPAREN"
       /\ Balanced(SubSeq(ts, 2, Len(ts) - 1))
    THEN Unwrap(SubSeq(ts, 2, Len(ts) - 1))
    ELSE ts

(* the first ')' of ts and the '(' it closes: an innermost group *)
FirstClose(ts) ==
    CHOOSE i \in DOMAIN ts :
        ts[i].type = "RPAREN" /\ \A j \in 1 .. (i - 1) : ts[j].type # "RPAREN"

OpenOf(ts, i) ==
    CHOOSE j \in 1 .. (i - 1) :
        ts[j].type = "LPAREN" /\ \A k \in (j + 1) .. (i - 1) : ts[k].type # "LPAREN"

(* a TEXT token no query holds, standing for a group *)
Hole == Token("TEXT", <<"#">>, 0)

(* ts with its innermost group replaced by the one token Hole, and EOF *)
Reduced(ts) ==
    LET i == FirstClose(ts) IN
    SubSeq(ts, 1, OpenOf(ts, i) - 1) \o <<Hole>> \o SubSeq(ts, i + 1, Len(ts))
        \o <<EofToken(0)>>

(* the tokens between the parentheses of the innermost group of ts *)
GroupBody(ts) ==
    LET i == FirstClose(ts) IN SubSeq(ts, OpenOf(ts, i) + 1, i - 1)

(* node with the leaf of Hole replaced by the tree group *)
RECURSIVE Subst(_, _)
Subst(node, group) ==
    CASE node = TextNode(Hole.value) -> group
      [] node.kind = "Not" -> NotNode(Subst(node.child, group))
      [] node.kind = "And" -> AndNode(Subst(node.left, group), Subst(node.right, group))
      [] node.kind = "Or" -> OrNode(Subst(node.left, group), Subst(node.right, group))
      [] OTHER -> node

(* C20: parentheses only group. A query wrapped whole in any number of     *)
(* pairs of parentheses parses to the tree of the query without them, and  *)
(* a parenthesized sub-expression is one atom: the tree is that of the     *)
(* query with one operand in place of the group, with the tree of the      *)
(* group's inner expression in place of that operand.                      *)
C20_ParenthesesOnlyGroup ==
    LET ts == Body(tokens) IN
    /\ pc # "failed"
    /\ (pc \in {"parsed", "applied"} /\ NoParens(Unwrap(ts))) =>
           ast = RefOr(Unwrap(ts))
    /\ (pc \in {"parsed", "applied"} /\ ~NoParens(ts)) =>
           /\ Parse(Reduced(ts)).ok
           /\ ast = Subst(Parse(Reduced(ts)).node, RefOr(GroupBody(ts)))

(* '(x OR y) AND z' parsed to And(Or(x, y), z) *)
C20_Witness ==
    /\ pc = "parsed"
    /\ Types(tokens) = <<"LPAREN", "TEXT", "OR", "REGEX", "RPAREN", "AND", "TEXT", "EOF">>
    /\ ast = AndNode(OrNode(Leaf(tokens[2]), Leaf(tokens[4])), Leaf(tokens[7]))

(* C21: a regex literal /P/ without flags whose body P compiles is         *)
(* compiled with the whole of P as the pattern and with no options, also   *)
(* when P holds an escaped slash, whatever follows that slash.             *)
C21_NoFlagsWholeBody ==
    \A P \in RegexBodies \ {<<>>} :
        (query = RegexLiteral(P, <<>>) /\ ReCompile(P, {}).ok) =>
            /\ pc = "lexed" => tokens[1] = Token("REGEX", P, 0)
            /\ pc # "failed"
            /\ pc \in {"parsed", "applied"} =>
                   /\ ast.kind = "Regex"
                   /\ ast.regex.ok
                   /\ ast.regex.pattern = P
                   /\ ast.regex.flags = {}

(* value occurs in text: some offset of text where the characters of text  *)
(* are, one by one, those of value                                         *)
Occurs(value, text) ==
    \E i \in 0 .. Len(text) :
        /\ i + Len(value) <= Len(text)
        /\ \A k \in 1 .. Len(value) : text[i + k] = value[k]

(* C22: a Text node is true of a text exactly when its value occurs in the *)
(* text as a contiguous run of the same characters, letter case included,  *)
(* in the tree walk and in the compiled predicate alike; the empty value   *)
(* is true of every text, the empty text included.                         *)
C22_TextIsSubstring ==
    /\ (pc = "parsed" /\ ast.kind = "Text") =>
           \A t \in Texts \cup {<<"A">>, <<"b", "a", " ", "A">>, <<"a", "b", "a", "a">>} :
               /\ Evaluate(ast, t) = Occurs(ast.value, t)
               /\ Call(Compile(ast), t) = Occurs(ast.value, t)
               /\ ast.value = <<>> => Evaluate(ast, t)
    /\ (pc = "applied" /\ ast.kind = "Text") =>
           /\ result = [type |-> "bool", value |-> Occurs(ast.value, text_data.value)]
           /\ ast.value = <<>> => result.value

(* the query "" applied to the empty text: true *)
C22_Witness ==
    /\ pc = "applied"
    /\ query = <<"\"", "\"">>
    /\ ast = TextNode(<<>>)
    /\ text_data = [type |-> "str", value |-> <<>>]
    /\ result = [type |-> "bool", value |-> TRUE]

(* the value of a tree with both operands of every And and Or evaluated *)
RECURSIVE Strict(_, _)
Strict(node, text) ==
    CASE node.kind = "Text" -> Occurs(node.value, text)
      [] node.kind = "Regex" -> ReSearch(node.regex, text)
      [] node.kind = "Not" -> ~Strict(node.child, text)
      [] node.kind = "And" -> Strict(node.left, text) /\ Strict(node.right, text)
      [] node.kind = "Or" -> Strict(node.left, text) \/ Strict(node.right, text)

(* the paths of the nodes of a tree *)
RECURSIVE Paths(_)
Paths(node) ==
    CASE node.kind = "Not" -> {<<>>} \cup {<<"child">> \o p : p \in Paths(node.child)}
      [] node.kind \in {"And", "Or"} ->
             {<<>>} \cup {<<"left">> \o p : p \in Paths(node.left)}
                    \cup {<<"right">> \o p : p \in Paths(node.right)}
      [] OTHER -> {<<>>}

IsPrefix(p, q) == Len(p) <= Len(q) /\ SubSeq(q, 1, Len(p)) = p

(* the indices of visited that name a leaf at or below path *)
Under(visited, path) == {i \in DOMAIN visited : IsPrefix(path, visited[i])}

(* one evaluation of node on text, which ran the leaves visited in that    *)
(* order and returned value, kept the short-circuit order                  *)
InOrder(node, text, run) ==
    /\ run.value = Strict(node, text)
    /\ run.visited # <<>>
    /\ \A i \in DOMAIN run.visited :
           /\ run.visited[i] \in Paths(node)
           /\ Sub(node, run.visited[i]).kind \in {"Text", "Regex"}
           /\ \A j \in DOMAIN run.visited : run.visited[j] = run.visited[i] => j = i
    /\ \A p \in Paths(node) :
           Sub(node, p).kind \in {"And", "Or"} =>
               LET L == Under(run.visited, Append(p, "left"))
                   R == Under(run.visited, Append(p, "right"))
                   decided == Strict(Sub(node, p).left, text) = (Sub(node, p).kind = "Or")
               IN /\ R # {} => L # {}
                  /\ \A i \in L, j \in R : i < j
                  /\ L # {} => ((R = {}) = decided)

(* C23: in the tree walk and in the compiled predicate alike, And and Or   *)
(* evaluate the left child first and the right child only if the left one  *)
(* does not settle the result (left true for And, left false for Or); no   *)
(* leaf of a skipped right subtree is evaluated, and the boolean returned  *)
(* is the plain conjunction or disjunction.                                *)
C23_ShortCircuit ==
    /\ pc = "parsed" =>
           \A t \in Texts :
               /\ InOrder(ast, t, EvaluateVisit(ast, t, <<>>))
               /\ InOrder(ast, t, CallVisit(Compile(ast), t, <<>>))
               /\ EvaluateVisit(ast, t, <<>>).value = Evaluate(ast, t)
               /\ CallVisit(Compile(ast), t, <<>>).value = Call(Compile(ast), t)
    /\ (pc = "applied" /\ text_data.type = "str") =>
           /\ InOrder(ast, text_data.value, EvaluateVisit(ast, text_data.value, <<>>))
           /\ result.value = EvaluateVisit(ast, text_data.value, <<>>).value

(* '(x OR y) AND z' applied to a text without x and y: y is evaluated      *)
(* after x, z is not evaluated, the result is false                        *)
C23_Witness ==
    /\ pc = "applied"
    /\ ast.kind = "And"
    /\ ast.left.kind = "Or"
    /\ text_data.type = "str"
    /\ EvaluateVisit(ast, text_data.value, <<>>).visited
           = << <<"left", "left">>, <<"left", "right">> >>
    /\ result = [type |-> "bool", value |-> FALSE]

(* the offset where the quoted string opened at offset p of q ends: that   *)
(* of the first later unescaped occurrence of the same quote, or the end   *)
(* of q                                                                    *)
QuoteEnd(q, p) ==
    IF \E e \in (p + 1) .. (Len(q) - 1) : Closes(q, p, e)
    THEN CHOOSE e \in (p + 1) .. (Len(q) - 1) : Closes(q, p, e)
    ELSE Len(q)

(* offset j of q holds a backslash that escapes the character after it:    *)
(* an even number of backslashes stands before it since offset from, and   *)
(* a character follows it                                                  *)
Escaping(q, j, from) ==
    /\ At(q, j) = "\\"
    /\ BackslashRun(q, j, from) % 2 = 0
    /\ j + 1 < Len(q)

(* the characters of q from offset from up to offset to, the escaping      *)
(* backslashes left out                                                    *)
RECURSIVE Unescaped(_, _, _, _)
Unescaped(q, from, j, to) ==
    IF j >= to
    THEN <<>>
    ELSE IF Escaping(q, j, from)
    THEN Unescaped(q, from, j + 1, to)
    ELSE <<At(q, j)>> \o Unescaped(q, from, j + 1, to)

(* the step of tokenize at the quote at offset position consumes up to and *)
(* with the closing quote, or to the end of the query, and appends one     *)
(* token whose value is the content with each \x replaced by x            *)
QuotedStep ==
    LET e == QuoteEnd(query, position) IN
    /\ position' = IF e < Len(query) THEN e + 1 ELSE e
    /\ pc' = "lex"
    /\ error' = NoError
    /\ Len(tokens') = Len(tokens) + 1
    /\ SubSeq(tokens', 1, Len(tokens)) = tokens
    /\ tokens'[Len(tokens')].value = Unescaped(query, position + 1, position + 1, e)

AtQuote == pc = "lex" /\ position < Len(query) /\ At(query, position) \in {"\"", "'"}

(* C24: at a quote tokenize consumes up to the first unescaped occurrence  *)
(* of the same quote, or to the end of the query when there is none,       *)
(* raises nothing, and appends a TEXT token whose value is the content     *)
(* with every backslash-escaped character x standing as x alone.           *)
C24_QuotedString ==
    [][AtQuote => (QuotedStep /\ tokens'[Len(tokens')].type = "TEXT")]_vars

(* C25: every token tokenize appends for a parenthesis, a keyword, a word, *)
(* a quoted string or a regex literal records the offset of its first      *)
(* source character, which is where the scan stood when it met the token.  *)
C25_TokenOffsetIsStart ==
    [][(pc = "lex" /\ pc' = "lex" /\ Len(tokens') = Len(tokens) + 1)
           => tokens'[Len(tokens')].position = position]_vars

(* tokenize has returned its token list *)
Returned ==
    \/ pc \in {"lexed", "parsed", "applied", "raised"}
    \/ pc = "failed" /\ error.msg[1] # "Unrecognized character"

(* C26: the token list tokenize returns ends with the one EOF token it     *)
(* holds, whose offset is the offset the scan ended at, the length of the  *)
(* query; before tokenize returns, and when it raises, the list holds no   *)
(* EOF token.                                                              *)
C26_EndsWithOneEof ==
    /\ Returned =>
           /\ tokens # <<>>
           /\ tokens[Len(tokens)] = Token("EOF", <<>>, Len(query))
           /\ position = Len(query)
           /\ \A i \in 1 .. (Len(tokens) - 1) : tokens[i].type # "EOF"
    /\ ~Returned => \A i \in DOMAIN tokens : tokens[i].type # "EOF"

(* a word and three white-space characters lexed: the word and EOF at     *)
(* offset 4, after the white space                                         *)
C26_Witness ==
    /\ pc = "lexed"
    /\ query = <<"a", "\t", "\n", "\r">>
    /\ Types(tokens) = <<"TEXT", "EOF">>
    /\ tokens[2].position = 4

(* C27: evaluation changes no field of any node and no text it is given;   *)
(* threads that evaluate the one tree, or predicates compiled from it, on  *)
(* texts of their own, their steps interleaved in any order, each return   *)
(* what the evaluation of the tree parse_query returned gives alone.       *)
C27_EvaluationDoesNotMutate ==
    /\ [][(pc \in {"parsed", "evaluating"}) => (ast' = ast /\ tokens' = tokens)]_vars
    /\ [][(pc = "evaluating") => (text_data' = text_data)]_vars
    /\ [](pc = "evaluating" =>
             /\ ast = Parse(tokens).node
             /\ \A i \in Threads :
                    result.value[i].run.done =>
                        /\ result.value[i].run.value = Evaluate(ast, text_data.value[i])
                        /\ result.value[i].run.value
                               = Call(Compile(Parse(tokens).node), text_data.value[i]))

(* two threads on different texts, one in evaluate and one in a compiled   *)
(* predicate, both past their first leaf and neither done                  *)
C27_Witness ==
    /\ pc = "evaluating"
    /\ text_data.value[1] # text_data.value[2]
    /\ result.value[1].mode = "evaluate"
    /\ result.value[2].mode = "call"
    /\ \A i \in {1, 2} :
           /\ ~result.value[i].run.done
           /\ result.value[i].run.at # FirstLeaf(ast, <<>>)

(* the leaves of a tree, read from left to right *)
RECURSIVE LeafSeq(_)
LeafSeq(node) ==
    CASE node.kind \in {"Text", "Regex"} -> <<node>>
      [] node.kind = "Not" -> LeafSeq(node.child)
      [] node.kind \in {"And", "Or"} -> LeafSeq(node.left) \o LeafSeq(node.right)

(* the number of nodes of a kind in a tree *)
RECURSIVE CountKind(_, _)
CountKind(node, kind) ==
    (IF node.kind = kind THEN 1 ELSE 0)
        + CASE node.kind = "Not" -> CountKind(node.child, kind)
            [] node.kind \in {"And", "Or"} ->
                   CountKind(node.left, kind) + CountKind(node.right, kind)
            [] OTHER -> 0

(* the operand tokens of a token list, in order *)
Operands(toks) == SelectSeq(toks, IsOperand)

CountType(toks, type) == Cardinality({i \in DOMAIN toks : toks[i].type = type})

(* C28: where parse accepts a token list, the leaves of the tree from left *)
(* to right are the nodes of its TEXT and REGEX tokens in their order, one *)
(* leaf for each, the tree holds as many Not nodes as there are NOT        *)
(* tokens, and the cursor stands on the final EOF.                         *)
C28_OperandsKept ==
    pc = "parsed" =>
        /\ LeafSeq(ast) = [i \in DOMAIN Operands(tokens) |-> Leaf(Operands(tokens)[i])]
        /\ CountKind(ast, "Not") = CountType(tokens, "NOT")
        /\ current = Len(tokens) - 1
        /\ tokens[current + 1].type = "EOF"
        /\ Parse(tokens) = Parsed(ast, current)

(* '( NOT a /b/i )' parsed: the leaves are a and then /b/i, under one Not *)
C28_Witness ==
    /\ pc = "parsed"
    /\ Types(tokens) = <<"LPAREN", "NOT", "TEXT", "REGEX", "RPAREN", "EOF">>
    /\ LeafSeq(ast) = <<Leaf(tokens[3]), Leaf(tokens[4])>>
    /\ CountKind(ast, "Not") = 1
    /\ current = 5

(* C29: tokenize discards nothing but white space. Each step that moves    *)
(* the scan on either skips one white-space character or appends exactly   *)
(* one token, whose source the characters it moved over are; so a regex    *)
(* literal with its closing slash, the empty '//' too, gives a REGEX token *)
(* (or an error) and is never passed over.                                 *)
C29_NothingDiscarded ==
    [][(pc = "lex" /\ pc' = "lex" /\ position' # position)
           => \/ /\ IsSpace(At(query, position))
                 /\ position' = position + 1
                 /\ tokens' = tokens
              \/ /\ ~IsSpace(At(query, position))
                 /\ Len(tokens') = Len(tokens) + 1
                 /\ SubSeq(tokens', 1, Len(tokens)) = tokens
                 /\ (At(query, position) = "/") = (tokens'[Len(tokens')].type = "REGEX")]_vars

(* C30: whenever tokenize has returned on a Lexer, after the first call or *)
(* a later one, the list it returned is the list of the first call: one    *)
(* EOF token, the last, and no token twice.                                *)
C30_TokenizeRepeatable ==
    pc = "lexed" =>
        /\ tokens = Tokenize(query).tokens
        /\ CountType(tokens, "EOF") = 1
        /\ tokens[Len(tokens)].type = "EOF"

====
